---- MODULE Spec2Model ----
(***************************************************************************)
(* nupic.tools: the Repository Client (repo-client.js, kept here as        *)
(* src/unnamed/part_000) and the issue_comment webhook handler             *)
(* (src/webhooks/event-handlers/issue_comment.js).                         *)
(*                                                                         *)
(* Every remote call of the client is asynchronous: the client issues a    *)
(* request to a transport adapter (GitHub, Travis) and a later step        *)
(* delivers the response to the continuation.  The model has one action    *)
(* per entry point and one per continuation; the adapters are the          *)
(* environment and answer each outstanding request with data or with an    *)
(* error.  Each subsystem keeps a log of the requests it issued, the       *)
(* responses it received and the callbacks it invoked.                     *)
(***************************************************************************)
EXTENDS Integers, Sequences, FiniteSets, TLC

\* ------------------------------------------------------------------ bounds
MaxInitHooks == 2
MaxCalls == 2
MaxPages == 3
MaxPageLen == 2
MaxBuilds == 3
MaxBehind == 2
MaxStatuses == 2
\* Longest event list handed to arraysMatch.
MaxEvents == 3

\* ------------------------------------------------------------ value spaces
\* Errors a transport adapter may answer with.
Errors == {"ETIMEDOUT", "E500"}
\* Webhook target URLs.
Urls == {"http://tools/hook", "http://other/hook"}
\* The url the tools server registers for itself.
RequestedUrls == {"http://tools/hook"}
EventNames == {"push", "pull_request"}
\* Event lists found in configuration files: order is free and a name may be
\* written twice.
ConfiguredEvents ==
    { <<"push">>, <<"pull_request", "push">>, <<"push", "push">> }
\* Event lists of the hooks that exist on the provider before the first call.
ProviderEvents ==
    { <<"push">>, <<"push", "pull_request">>, <<"pull_request", "push">> }
NoUrl == "-"

VARIABLES
    \* --- the client object
    client,         \* the fields the constructor sets
    \* --- webhook reconciliation (confirmWebhookExists)
    repoHooks,      \* the provider's webhooks of the repository
    nextHookId,     \* the id the provider gives the next created hook
    deleteReqs,     \* deleteHook requests the provider has not answered yet
    cwPc,           \* position of the current confirmWebhookExists invocation
    cwUrl,          \* its url argument
    cwEvents,       \* its events argument
    found,          \* its local variable found
    hookRemovers,   \* its local list hookRemovers, as the ids to delete
    removed,        \* the hookRemovers async.parallel has seen complete
    callNo,         \* number of invocations started
    cwLog,          \* requests, responses and callbacks of the invocation
    hooksAtCallback,\* repoHooks when the invocation's callback was invoked
    prev,           \* the previous invocation: arguments and outcome
    \* --- paginated fetches (getContributors, getCommits)
    pages,          \* the provider's listing, page by page
    pgPc,           \* position of the paginated fetch
    pgOp,           \* the operation: getContributors, getCommits, ...
    lastData,       \* _getRemainingPages: the page received last
    allData,        \* _getRemainingPages: the items gathered so far
    received,       \* the pages the provider has returned, in order
    delivered,      \* the data argument of the completion callback
    pgLog,          \* requests, responses and callbacks of the fetch
    \* --- triggerTravisForPullRequest
    builds,         \* the CI provider's pull-request builds of the repository
    tvPc,           \* position of triggerTravisForPullRequest
    tvN,            \* its pull_request_number argument
    tvLog,          \* its requests, responses and callbacks
    \* --- the operations of one remote call
    provider,       \* what the hosting provider holds for the commit asked about
    opPc,           \* position of the operation
    opName,         \* merge, isBehindMaster, getAllStatusesFor, ...
    opLog,          \* its request, response and callback
    \* --- issueCommentHandler
    lastCommitOf,   \* the provider's most recent commit of every pull request
    icPc,           \* position of the handler
    payload,        \* the event payload
    icLog,          \* the handler's calls, their answers and the callback
    \* --- arraysMatch
    amPc,           \* position of the comparison
    amLeft,         \* its argument left
    amRight,        \* its argument right
    amResult        \* the value it returned

hookVars == << repoHooks, nextHookId, deleteReqs, cwPc, cwUrl, cwEvents, found,
               hookRemovers, removed, callNo, cwLog, hooksAtCallback, prev >>

pageVars == << pages, pgPc, pgOp, lastData, allData, received, delivered, pgLog >>

travisVars == << builds, tvPc, tvN, tvLog >>

opVars == << provider, opPc, opName, opLog >>

issueVars == << lastCommitOf, icPc, payload, icLog >>

matchVars == << amPc, amLeft, amRight, amResult >>

vars == << client, hookVars, pageVars, travisVars, opVars, issueVars, matchVars >>

notHooks ==
    << client, pageVars, travisVars, opVars, issueVars, matchVars >>

notPages ==
    << client, hookVars, travisVars, opVars, issueVars, matchVars >>

notTravis ==
    << client, hookVars, pageVars, opVars, issueVars, matchVars >>

notOps ==
    << client, hookVars, pageVars, travisVars, issueVars, matchVars >>

notMatch == << client, hookVars, pageVars, travisVars, opVars, issueVars >>

notIssue ==
    << client, hookVars, pageVars, travisVars, opVars, matchVars >>

\* ----------------------------------------------------------------- helpers
SeqsUpTo(S, n) == UNION { [1..k -> S] : k \in 0..n }

Range(s) == { s[i] : i \in 1..Len(s) }

\* A log entry: a remote call issued ("call"), a transport callback run
\* ("resp") or the operation's callback invoked ("callback"); arg is the
\* call's argument or the data handed over, res is "ok" or the error.
Entry(t, op, arg, res) == [t |-> t, op |-> op, arg |-> arg, res |-> res]

Calls(lg, op) == SelectSeq(lg, LAMBDA e : e.t = "call" /\ e.op = op)

Responses(lg, op) == SelectSeq(lg, LAMBDA e : e.t = "resp" /\ e.op = op)

Callbacks(lg) == SelectSeq(lg, LAMBDA e : e.t = "callback")

\* The ids of a listing, in the order the provider lists them.
RECURSIVE SortedIds(_)
SortedIds(S) ==
    IF S = {} THEN <<>>
    ELSE LET m == CHOOSE x \in S : \A y \in S : x <= y
         IN << m >> \o SortedIds(S \ {m})

\* _.uniq: the first occurrence of every value, in order.
RECURSIVE uniq(_)
uniq(s) ==
    IF s = <<>> THEN <<>>
    ELSE LET front == uniq(SubSeq(s, 1, Len(s) - 1))
             last == s[Len(s)]
         IN IF last \in Range(front) THEN front ELSE Append(front, last)

\* _.intersection(left, right): the distinct values of left that right holds.
intersection(left, right) ==
    SelectSeq(uniq(left), LAMBDA x : x \in Range(right))

arraysMatch(left, right) ==
    LET sameValues == intersection(left, right)
    IN Len(sameValues) = Len(left) /\ Len(sameValues) = Len(right)

\* The comparison starts with two event lists.
MatchInit ==
    /\ amPc = "idle"
    /\ amLeft \in SeqsUpTo(EventNames, MaxEvents)
    /\ amRight \in SeqsUpTo(EventNames, MaxEvents)
    /\ amResult = FALSE

\* No comparison is part of the run.
MatchIdle ==
    /\ amPc = "off"
    /\ amLeft = <<>>
    /\ amRight = <<>>
    /\ amResult = FALSE

\* arraysMatch(left, right) returns.
ArraysMatch ==
    /\ UNCHANGED notMatch
    /\ amPc = "idle"
    /\ amResult' = arraysMatch(amLeft, amRight)
    /\ amPc' = "done"
    /\ UNCHANGED << amLeft, amRight >>

NextMatch == ArraysMatch

\* ------------------------------------------------------ RepositoryClient
\* The configurations of a monitored repository: with or without hooks.
Configs ==
    { [username |-> "bot", password |-> "secret", organization |-> "numenta",
       repository |-> "nupic", validators |-> <<"travis", "contributor">>,
       hasHooks |-> h, hooks |-> IF h THEN <<"build">> ELSE <<>>] :
      h \in BOOLEAN }

DefaultConfig == CHOOSE config \in Configs : config.hasHooks

\* new RepositoryClient(config): the fields of the client.
RepositoryClient(config) ==
    [user |-> config.username,
     password |-> config.password,
     org |-> config.organization,
     repo |-> config.repository,
     validators |-> config.validators,
     hooks |-> IF config.hasHooks THEN config.hooks ELSE <<>>]

ClientInit == \E config \in Configs : client = RepositoryClient(config)

ClientDefault == client = RepositoryClient(DefaultConfig)

\* ---------------------------------------------- confirmWebhookExists
Hook(id, hasConfig, url, events) ==
    [id |-> id, hasConfig |-> hasConfig, url |-> url, events |-> events]

\* What a hook of the initial provider state may look like.
HookShapes ==
    { [hasConfig |-> FALSE, url |-> NoUrl, events |-> <<"push">>] }
    \cup { [hasConfig |-> TRUE, url |-> u, events |-> <<"push">>] :
             u \in Urls \ RequestedUrls }
    \cup { [hasConfig |-> TRUE, url |-> u, events |-> ev] :
             u \in RequestedUrls, ev \in ProviderEvents }

NoPrev == [url |-> NoUrl, events |-> <<>>, res |-> "-"]

\* The locals of confirmWebhookExists before it is called.
HooksClientIdle ==
    /\ deleteReqs = {}
    /\ cwUrl = NoUrl
    /\ cwEvents = <<>>
    /\ found = FALSE
    /\ hookRemovers = {}
    /\ removed = {}
    /\ callNo = 0
    /\ cwLog = <<>>
    /\ hooksAtCallback = {}
    /\ prev = NoPrev

HooksInit ==
    /\ \E shapes \in SeqsUpTo(HookShapes, MaxInitHooks) :
          /\ repoHooks = { Hook(i, shapes[i].hasConfig, shapes[i].url, shapes[i].events) :
                             i \in 1..Len(shapes) }
          /\ nextHookId = Len(shapes) + 1
    /\ cwPc = "idle"
    /\ HooksClientIdle

\* The hooks of the listing that the forEach loop queues for removal: those
\* for the url whose events do not match.
StaleHooksNone(hooks, url, events) == {}

StaleHooks(hooks, url, events) ==
    { hook \in hooks : /\ hook.hasConfig
                       /\ url = hook.url
                       /\ ~arraysMatch(hook.events, events) }

\* The hooks of the listing that set found.
MatchingHooks(hooks, url, events) ==
    { hook \in hooks : /\ hook.hasConfig
                       /\ url = hook.url
                       /\ arraysMatch(hook.events, events) }

\* confirmWebhookExists(url, events, callback): the listing is requested.
ConfirmWebhookExists(url, events) ==
    /\ UNCHANGED notHooks
    /\ cwPc \in {"idle", "done"}
    /\ callNo < MaxCalls
    /\ callNo' = callNo + 1
    /\ cwUrl' = url
    /\ cwEvents' = events
    /\ found' = FALSE
    /\ hookRemovers' = {}
    /\ removed' = {}
    /\ cwPc' = "getHooks"
    /\ cwLog' = << Entry("call", "getHooks", 0, "-") >>
    /\ prev' = IF cwPc = "done"
               THEN [url |-> cwUrl, events |-> cwEvents,
                     res |-> cwLog[Len(cwLog)].res]
               ELSE NoPrev
    /\ hooksAtCallback' = {}
    /\ UNCHANGED << repoHooks, nextHookId, deleteReqs >>

\* callback(err) / callback(): the invocation ends.
CwCallback(lg, res) ==
    /\ cwLog' = Append(lg, Entry("callback", "confirmWebhookExists", 0, res))
    /\ cwPc' = "done"

\* The continuation of async.parallel when no removal failed: create the hook
\* unless one was found.
CwAfterRemovals(lg, fnd, hooksNow) ==
    IF ~fnd
    THEN /\ cwLog' = Append(lg, Entry("call", "createHook", 0, "-"))
         /\ cwPc' = "createHook"
         /\ UNCHANGED hooksAtCallback
    ELSE /\ CwCallback(lg, "ok")
         /\ hooksAtCallback' = hooksNow

\* The getHooks continuation, with an error.
GetHooksFails(err) ==
    /\ UNCHANGED notHooks
    /\ cwPc = "getHooks"
    /\ CwCallback(Append(cwLog, Entry("resp", "getHooks", 0, err)), err)
    /\ hooksAtCallback' = repoHooks
    /\ UNCHANGED << repoHooks, nextHookId, deleteReqs, cwUrl, cwEvents, found,
                    hookRemovers, removed, callNo, prev >>

\* The getHooks continuation, with the listing: the forEach loop, then
\* async.parallel starts every remover (or continues at once when there is
\* none).
GetHooksResponds ==
    /\ UNCHANGED notHooks
    /\ cwPc = "getHooks"
    /\ LET hooks == repoHooks
           stale == { hook.id : hook \in StaleHooks(hooks, cwUrl, cwEvents) }
           fnd == MatchingHooks(hooks, cwUrl, cwEvents) # {}
           lg == Append(cwLog, Entry("resp", "getHooks", 0, "ok"))
       IN /\ found' = fnd
          /\ hookRemovers' = stale
          /\ IF stale = {}
             THEN /\ CwAfterRemovals(lg, fnd, repoHooks)
                  /\ UNCHANGED deleteReqs
             ELSE /\ deleteReqs' = deleteReqs \cup
                                     { [call |-> callNo, id |-> i] : i \in stale }
                  /\ cwLog' = lg \o [k \in 1..Cardinality(stale) |->
                                       Entry("call", "deleteHook", SortedIds(stale)[k], "-")]
                  /\ cwPc' = "removing"
                  /\ UNCHANGED hooksAtCallback
    /\ UNCHANGED << repoHooks, nextHookId, cwUrl, cwEvents, removed, callNo, prev >>

\* async.parallel, told that one more task ended with res, the tasks in done
\* having ended: the first error goes to the final callback, and the final
\* callback runs without error once every task has ended.
ParallelStepFirstSuccess(res, done, tasks) ==
    IF res # "ok" THEN "fail" ELSE "finish"

ParallelStepIgnoresError(res, done, tasks) ==
    IF done = tasks THEN "finish" ELSE "wait"

ParallelStep(res, done, tasks) ==
    IF res # "ok" THEN "fail"
    ELSE IF done = tasks THEN "finish" ELSE "wait"

\* The provider answers a deleteHook request, and the answer reaches the
\* hookRemovalCallback of async.parallel.
DeleteHookResponds(req, res) ==
    /\ UNCHANGED notHooks
    /\ req \in deleteReqs
    /\ res = "ok" => \E hook \in repoHooks : hook.id = req.id
    /\ deleteReqs' = deleteReqs \ {req}
    /\ repoHooks' = IF res = "ok"
                    THEN { hook \in repoHooks : hook.id # req.id }
                    ELSE repoHooks
    /\ IF req.call = callNo /\ cwPc = "removing"
       THEN LET lg == Append(cwLog, Entry("resp", "deleteHook", req.id, res))
                done == removed \cup {req.id}
                step == ParallelStep(res, done, hookRemovers)
            IN CASE step = "fail" ->
                      /\ CwCallback(lg, res)
                      /\ hooksAtCallback' = repoHooks'
                      /\ UNCHANGED removed
                 [] step = "finish" ->
                      /\ removed' = done
                      /\ CwAfterRemovals(lg, found, repoHooks')
                 [] OTHER ->
                      /\ removed' = done
                      /\ cwLog' = lg
                      /\ UNCHANGED << cwPc, hooksAtCallback >>
       ELSE UNCHANGED << cwPc, cwLog, removed, hooksAtCallback >>
    /\ UNCHANGED << nextHookId, cwUrl, cwEvents, found, hookRemovers, callNo, prev >>

\* The createHook continuation.  The provider keeps the events it was given,
\* or their distinct values.
CreateHookResponds(res) ==
    /\ UNCHANGED notHooks
    /\ cwPc = "createHook"
    /\ LET lg == Append(cwLog, Entry("resp", "createHook", nextHookId, res))
       IN IF res # "ok"
          THEN /\ CwCallback(lg, res)
               /\ hooksAtCallback' = repoHooks
               /\ UNCHANGED << repoHooks, nextHookId >>
          ELSE \E stored \in {cwEvents, uniq(cwEvents)} :
                  /\ repoHooks' = repoHooks \cup
                                    { Hook(nextHookId, TRUE, cwUrl, stored) }
                  /\ nextHookId' = nextHookId + 1
                  /\ CwCallback(lg, "ok")
                  /\ hooksAtCallback' = repoHooks'
    /\ UNCHANGED << deleteReqs, cwUrl, cwEvents, found, hookRemovers, removed,
                    callNo, prev >>

NextHooks ==
    \/ \E url \in RequestedUrls, events \in ConfiguredEvents : ConfirmWebhookExists(url, events)
    \/ \E err \in Errors : GetHooksFails(err)
    \/ GetHooksResponds
    \/ \E req \in deleteReqs, res \in {"ok"} \cup Errors : DeleteHookResponds(req, res)
    \/ \E res \in {"ok"} \cup Errors : CreateHookResponds(res)

\* ----------------------------- getContributors, getCommits, _getRemainingPages
Items == {"x", "y"}

\* A page as the transport hands it over: the items, and the link to the next
\* page (its index in the provider's listing, 0 when there is none).
Page(items, next) == [items |-> items, next |-> next]

NoPage == Page(<<>>, 0)

PageAt(k) == Page(pages[k], IF k < Len(pages) THEN k + 1 ELSE 0)

\* An optional array: null / undefined, or an array.
Null == [null |-> TRUE, v |-> <<>>]

Some(v) == [null |-> FALSE, v |-> v]

\* The error of github.getNextPage when the last page has no next link.
NoNextPage == "No next page found"

PagedOps == {"getContributors", "getCommits"}

PagesClientIdle ==
    /\ pgOp = "-"
    /\ lastData = NoPage
    /\ allData = <<>>
    /\ received = <<>>
    /\ delivered = Null
    /\ pgLog = <<>>

PagesInit ==
    /\ pages \in SeqsUpTo(SeqsUpTo(Items, MaxPageLen), MaxPages) \ { <<>> }
    /\ pgPc = "idle"
    /\ PagesClientIdle

PagesIdle ==
    /\ pages = << <<>> >>
    /\ pgPc = "off"
    /\ PagesClientIdle

\* getContributors(callback) / getCommits(callback): the first page is requested.
PagedFetch(op) ==
    /\ pgPc = "idle"
    /\ pgOp' = op
    /\ pgPc' = "first"
    /\ pgLog' = << Entry("call", op, 0, "-") >>
    /\ UNCHANGED << pages, lastData, allData, received, delivered >>

GetContributors ==
    /\ UNCHANGED notPages
    /\ PagedFetch("getContributors")

GetCommits ==
    /\ UNCHANGED notPages
    /\ PagedFetch("getCommits")

\* getAllOpenPullRequests(callback): the open pull requests are requested,
\* with callback as the transport callback.
GetAllOpenPullRequests ==
    /\ UNCHANGED notPages
    /\ PagedFetch("getAllOpenPullRequests")

\* The first lines of _getRemainingPages(lastData, allDataOld, callback): the
\* value of allData when getNextPage is called.
allDataOfLastPageOnly(last, allDataOld) == last.items

allDataOf(last, allDataOld) ==
    (IF ~allDataOld.null THEN <<>> \o allDataOld.v ELSE <<>>) \o last.items

GetRemainingPagesCallingBackEachPage(lg, last, allDataOld) ==
    /\ lastData' = last
    /\ allData' = allDataOf(last, allDataOld)
    /\ pgLog' = lg \o << Entry("callback", pgOp, 0, "ok"),
                         Entry("call", "getNextPage", last.next, "-") >>
    /\ pgPc' = "next"

GetRemainingPagesRequestingTwice(lg, last, allDataOld) ==
    /\ lastData' = last
    /\ allData' = allDataOf(last, allDataOld)
    /\ pgLog' = lg \o << Entry("call", "getNextPage", last.next, "-"),
                         Entry("call", "getNextPage", last.next, "-") >>
    /\ pgPc' = "next"

\* _getRemainingPages(lastData, allDataOld, callback) up to its getNextPage call.
GetRemainingPages(lg, last, allDataOld) ==
    /\ lastData' = last
    /\ allData' = allDataOf(last, allDataOld)
    /\ pgLog' = Append(lg, Entry("call", "getNextPage", last.next, "-"))
    /\ pgPc' = "next"

\* The callback of the first fetch, with an error (for getAllOpenPullRequests
\* it is the operation's callback itself).
FirstPageFails(err) ==
    /\ UNCHANGED notPages
    /\ pgPc = "first"
    /\ pgLog' = pgLog \o << Entry("resp", pgOp, 0, err),
                            Entry("callback", pgOp, 0, err) >>
    /\ pgPc' = "done"
    /\ UNCHANGED << pages, pgOp, lastData, allData, received, delivered >>

\* The callback of the first fetch, with the first page.
FirstPageResponds ==
    /\ UNCHANGED notPages
    /\ pgPc = "first"
    /\ pgOp \in PagedOps
    /\ received' = << pages[1] >>
    /\ GetRemainingPages(Append(pgLog, Entry("resp", pgOp, 1, "ok")), PageAt(1), Null)
    /\ UNCHANGED << pages, pgOp, delivered >>

\* The transport callback of pullRequests.getAll, with the first page: it is
\* the callback of getAllOpenPullRequests, so the page is the result.
PullRequestsResponds ==
    /\ UNCHANGED notPages
    /\ pgPc = "first"
    /\ pgOp = "getAllOpenPullRequests"
    /\ received' = << pages[1] >>
    /\ delivered' = Some(PageAt(1).items)
    /\ pgLog' = pgLog \o << Entry("resp", pgOp, 1, "ok"),
                            Entry("callback", pgOp, 0, "ok") >>
    /\ pgPc' = "done"
    /\ UNCHANGED << pages, pgOp, lastData, allData >>

\* What the getNextPage callback hands to the completion callback on an error.
OnNextPageErrorFatal(error, all) == [res |-> error, data |-> Null]

OnNextPageError(error, all) == [res |-> "ok", data |-> Some(all)]

\* The getNextPage callback, with an error: there is no next link, or the
\* transport failed.
NextPageFails(error) ==
    /\ UNCHANGED notPages
    /\ pgPc = "next"
    /\ IF lastData.next = 0 THEN error = NoNextPage ELSE error \in Errors
    /\ LET out == OnNextPageError(error, allData)
       IN /\ delivered' = out.data
          /\ pgLog' = pgLog \o << Entry("resp", "getNextPage", lastData.next, error),
                                  Entry("callback", pgOp, 0, out.res) >>
    /\ pgPc' = "done"
    /\ UNCHANGED << pages, pgOp, lastData, allData, received >>

\* The getNextPage callback, with the next page.
NextPageResponds ==
    /\ UNCHANGED notPages
    /\ pgPc = "next"
    /\ lastData.next # 0
    /\ received' = Append(received, pages[lastData.next])
    /\ GetRemainingPages(Append(pgLog, Entry("resp", "getNextPage", lastData.next, "ok")),
                         PageAt(lastData.next), Some(allData))
    /\ UNCHANGED << pages, pgOp, delivered >>

NextPages ==
    \/ GetContributors
    \/ GetCommits
    \/ GetAllOpenPullRequests
    \/ PullRequestsResponds
    \/ \E err \in Errors : FirstPageFails(err)
    \/ FirstPageResponds
    \/ \E error \in Errors \cup {NoNextPage} : NextPageFails(error)
    \/ NextPageResponds

\* No hook exists and confirmWebhookExists is not part of the run.
HooksIdle ==
    /\ repoHooks = {}
    /\ nextHookId = 1
    /\ cwPc = "off"
    /\ HooksClientIdle

\* ------------------------------------------- triggerTravisForPullRequest
PullRequests == {1, 2}

Build(id, n) == [id |-> id, pull_request_number |-> n]

\* The response of travis.builds: undefined, an object without builds, or an
\* object with the builds.
Response(defined, hasBuilds, bs) ==
    [defined |-> defined, hasBuilds |-> hasBuilds, builds |-> bs]

\* The responses that may come with an error.
ErrorResponses == { Response(FALSE, FALSE, <<>>), Response(TRUE, FALSE, <<>>) }

NotFound == "No pull request with #"

RestartResults == {TRUE, FALSE}

\* The result argument of the callback: absent, or restartResp.result.
NoResult == [null |-> TRUE, v |-> FALSE]

Result(result) == [null |-> FALSE, v |-> result]

TravisClientIdle ==
    /\ tvN = 0
    /\ tvLog = <<>>

TravisInit ==
    /\ \E ns \in SeqsUpTo(PullRequests, MaxBuilds) :
          builds = [i \in 1..Len(ns) |-> Build(100 + i, ns[i])]
    /\ tvPc = "idle"
    /\ TravisClientIdle

TravisIdle ==
    /\ builds = <<>>
    /\ tvPc = "off"
    /\ TravisClientIdle

\* triggerTravisForPullRequest(pull_request_number, callback): the builds are
\* requested.
TriggerTravisForPullRequest(n) ==
    /\ UNCHANGED notTravis
    /\ tvPc = "idle"
    /\ tvN' = n
    /\ tvPc' = "builds"
    /\ tvLog' = << Entry("call", "builds", 0, "-") >>
    /\ UNCHANGED builds

\* _.find(response.builds, ...): the index of the first build of the pull
\* request, 0 when there is none (or no list).
findFirstBuild(bs, n) == IF bs = <<>> THEN 0 ELSE 1

find(bs, n) ==
    IF \E i \in 1..Len(bs) : bs[i].pull_request_number = n
    THEN CHOOSE i \in 1..Len(bs) :
            /\ bs[i].pull_request_number = n
            /\ \A j \in 1..(i - 1) : bs[j].pull_request_number # n
    ELSE 0

\* The travis.builds callback(err, response).  err is not looked at:
\* response.builds throws when response is undefined.
BuildsCallback(err, response) ==
    LET lg == Append(tvLog, Entry("resp", "builds", response, err))
    IN IF ~response.defined
       THEN /\ tvLog' = lg
            /\ tvPc' = "thrown"
       ELSE LET bs == IF response.hasBuilds THEN response.builds ELSE <<>>
                pr == find(bs, tvN)
            IN IF pr = 0
               THEN /\ tvLog' = Append(lg, Entry("callback", "triggerTravisForPullRequest",
                                                 "-", NotFound))
                    /\ tvPc' = "done"
               ELSE /\ tvLog' = Append(lg, Entry("call", "restart", bs[pr].id, "-"))
                    /\ tvPc' = "restart"

BuildsResponds ==
    /\ UNCHANGED notTravis
    /\ tvPc = "builds"
    /\ BuildsCallback("ok", Response(TRUE, TRUE, builds))
    /\ UNCHANGED << builds, tvN >>

BuildsFails(err, response) ==
    /\ UNCHANGED notTravis
    /\ tvPc = "builds"
    /\ BuildsCallback(err, response)
    /\ UNCHANGED << builds, tvN >>

\* The travis.builds.restart callback(err, restartResp).
RestartFails(err) ==
    /\ UNCHANGED notTravis
    /\ tvPc = "restart"
    /\ tvLog' = tvLog \o << Entry("resp", "restart", NoResult, err),
                            Entry("callback", "triggerTravisForPullRequest", NoResult, err) >>
    /\ tvPc' = "done"
    /\ UNCHANGED << builds, tvN >>

RestartResponds(result) ==
    /\ UNCHANGED notTravis
    /\ tvPc = "restart"
    /\ tvLog' = tvLog \o << Entry("resp", "restart", Result(result), "ok"),
                            Entry("callback", "triggerTravisForPullRequest", Result(result), "ok") >>
    /\ tvPc' = "done"
    /\ UNCHANGED << builds, tvN >>

NextTravis ==
    \/ \E n \in PullRequests : TriggerTravisForPullRequest(n)
    \/ BuildsResponds
    \/ \E err \in Errors, response \in ErrorResponses : BuildsFails(err, response)
    \/ \E err \in Errors : RestartFails(err)
    \/ \E result \in RestartResults : RestartResponds(result)

\* ------------- merge, isBehindMaster, getAllStatusesFor, getCommit, rateLimit
\* (getAllOpenPullRequests, whose listing has pages, is with the paginated
\* fetches above.)
SimpleOps == { "merge", "isBehindMaster", "getAllStatusesFor", "getCommit",
               "rateLimit" }

Statuses == {"pending", "success"}

OpsClientIdle ==
    /\ opName = "-"
    /\ opLog = <<>>

OpsInit ==
    /\ \E b \in 0..MaxBehind, sts \in SeqsUpTo(Statuses, MaxStatuses) :
          provider = [behind_by |-> b, statuses |-> sts]
    /\ opPc = "idle"
    /\ OpsClientIdle

OpsIdle ==
    /\ provider = [behind_by |-> 0, statuses |-> <<>>]
    /\ opPc = "off"
    /\ OpsClientIdle

\* merge(head, base, callback), isBehindMaster(sha, callback), ...: the one
\* remote call of the operation is issued.
ClientCall(name) ==
    /\ UNCHANGED notOps
    /\ opPc = "idle"
    /\ opName' = name
    /\ opPc' = "called"
    /\ opLog' = << Entry("call", name, 0, "-") >>
    /\ UNCHANGED provider

\* The data a successful transport call hands over.
TransportData(name) ==
    CASE name = "isBehindMaster" -> { Some([behind_by |-> provider.behind_by]) }
      [] name = "getAllStatusesFor" ->
            { Some(provider.statuses) } \cup
            (IF provider.statuses = <<>> THEN { Null } ELSE {})
      [] OTHER -> { Some(<< name >>) }

isBehindNonNegative(behind_by) == behind_by >= 0

\* data.behind_by > 0
isBehind(behind_by) == behind_by > 0

statusesAsReceived(statuses) == statuses

\* (statuses || [])
statusesOrEmpty(statuses) == Some(IF statuses.null THEN <<>> ELSE statuses.v)

\* The arguments the operation's callback gets after err.
CallbackArguments(name, err, data) ==
    CASE name = "isBehindMaster" ->
            IF err # "ok" THEN <<>>
            ELSE << isBehind(data.v.behind_by), data.v.behind_by >>
      [] name = "getAllStatusesFor" -> << statusesOrEmpty(data) >>
      [] OTHER -> << data >>

TransportCallbackAfterPages(err, data) ==
    /\ pgPc \notin {"first", "next"}
    /\ opPc = "called"
    /\ opLog' = opLog \o << Entry("resp", opName, data, err),
                            Entry("callback", opName,
                                  CallbackArguments(opName, err, data), err) >>
    /\ opPc' = "done"
    /\ UNCHANGED << provider, opName >>

\* The transport callback(err, data) of the operation.
TransportCallback(err, data) ==
    /\ opPc = "called"
    /\ opLog' = opLog \o << Entry("resp", opName, data, err),
                            Entry("callback", opName,
                                  CallbackArguments(opName, err, data), err) >>
    /\ opPc' = "done"
    /\ UNCHANGED << provider, opName >>

CallFails(err) ==
    /\ UNCHANGED notOps
    /\ TransportCallback(err, Null)

CallResponds ==
    /\ UNCHANGED notOps
    /\ \E data \in TransportData(opName) : TransportCallback("ok", data)

NextOps ==
    \/ \E name \in SimpleOps : ClientCall(name)
    \/ \E err \in Errors : CallFails(err)
    \/ CallResponds

\* ------------------------------------------------------ issueCommentHandler
Shas == {"sha1", "sha2"}

Logins == {"alice", "bob"}

\* commit.committer: absent (null), or a user with a login.
Committers == { [null |-> TRUE, login |-> "-"] } \cup
              { [null |-> FALSE, login |-> l] : l \in Logins }

Commits == [sha : Shas, committer : Committers]

Payloads == [issue : [number : PullRequests, pull_request : BOOLEAN]]

NoPayload == [issue |-> [number |-> 0, pull_request |-> FALSE]]

\* The commit argument of a callback that got an error: undefined.
NoCommit == [sha |-> "-", committer |-> [null |-> TRUE, login |-> "-"]]

\* How performCompleteValidation may end.
Outcomes == {"merged", "rejected", "errored"}

IssueClientIdle ==
    /\ payload = NoPayload
    /\ icLog = <<>>

IssueInit ==
    /\ lastCommitOf \in [PullRequests -> Commits]
    /\ icPc = "idle"
    /\ IssueClientIdle

IssueIdle ==
    /\ lastCommitOf = [n \in PullRequests |->
                         [sha |-> "sha1", committer |-> [null |-> FALSE, login |-> "alice"]]]
    /\ icPc = "off"
    /\ IssueClientIdle

\* if (! payload.issue.pull_request) return callback();
isPullRequestCommentAlways(p) == TRUE

isPullRequestComment(p) == p.issue.pull_request

\* issueCommentHandler(payload, config, repoClient, validators, callback).
IssueCommentHandler(p) ==
    /\ UNCHANGED notIssue
    /\ icPc = "idle"
    /\ payload' = p
    /\ IF ~isPullRequestComment(p)
       THEN /\ icLog' = << Entry("callback", "issueCommentHandler", 0, "ok") >>
            /\ icPc' = "done"
       ELSE /\ icLog' = << Entry("call", "getLastCommitOnPullRequest", p.issue.number, "-") >>
            /\ icPc' = "commit"
    /\ UNCHANGED lastCommitOf

\* The arguments of performCompleteValidation that come from the commit and
\* the re-check flag.
validationArgumentsNoRecheck(commit) ==
    [sha |-> commit.sha, login |-> commit.committer.login, recheck |-> FALSE]

validationArguments(commit) ==
    [sha |-> commit.sha, login |-> commit.committer.login, recheck |-> TRUE]

\* The getLastCommitOnPullRequest callback(err, commit), with the commit:
\* commit.committer.login throws when the commit has no committer.
LastCommitResponds ==
    /\ UNCHANGED notIssue
    /\ icPc = "commit"
    /\ LET commit == lastCommitOf[payload.issue.number]
           lg == Append(icLog, Entry("resp", "getLastCommitOnPullRequest", commit, "ok"))
       IN IF commit.committer.null
          THEN /\ icLog' = lg
               /\ icPc' = "thrown"
          ELSE /\ icLog' = Append(lg, Entry("call", "performCompleteValidation",
                                            validationArguments(commit), "-"))
               /\ icPc' = "validating"
    /\ UNCHANGED << lastCommitOf, payload >>

\* The getLastCommitOnPullRequest callback(err, commit), with an error and no
\* commit: err is not looked at and commit.committer throws.
LastCommitFails(err) ==
    /\ UNCHANGED notIssue
    /\ icPc = "commit"
    /\ icLog' = Append(icLog, Entry("resp", "getLastCommitOnPullRequest", NoCommit, err))
    /\ icPc' = "thrown"
    /\ UNCHANGED << lastCommitOf, payload >>

\* performCompleteValidation ends and invokes the callback it was given.
ValidationCompletes(outcome) ==
    /\ UNCHANGED notIssue
    /\ icPc = "validating"
    /\ icLog' = Append(icLog, Entry("callback", "issueCommentHandler", outcome,
                                    IF outcome = "errored" THEN "error" ELSE "ok"))
    /\ icPc' = "done"
    /\ UNCHANGED << lastCommitOf, payload >>

NextIssue ==
    \/ \E p \in Payloads : IssueCommentHandler(p)
    \/ LastCommitResponds
    \/ \E err \in Errors : LastCommitFails(err)
    \/ \E outcome \in Outcomes : ValidationCompletes(outcome)

\* ------------------------------------------------------------ specifications
InitHooks ==
    ClientDefault /\ HooksInit /\ PagesIdle /\ TravisIdle /\ OpsIdle /\ IssueIdle /\ MatchIdle

SpecHooks == InitHooks /\ [][NextHooks]_vars

InitPages ==
    ClientDefault /\ HooksIdle /\ PagesInit /\ TravisIdle /\ OpsIdle /\ IssueIdle /\ MatchIdle

SpecPages == InitPages /\ [][NextPages]_vars

\* Every request of a fetch is answered: the transport calls back, with data
\* or with an error.
PageResponses ==
    \/ \E err \in Errors : FirstPageFails(err)
    \/ FirstPageResponds
    \/ PullRequestsResponds
    \/ \E error \in Errors \cup {NoNextPage} : NextPageFails(error)
    \/ NextPageResponds

FairSpecPages == SpecPages /\ WF_vars(PageResponses)

InitTravis ==
    ClientDefault /\ HooksIdle /\ PagesIdle /\ TravisInit /\ OpsIdle /\ IssueIdle /\ MatchIdle

SpecTravis == InitTravis /\ [][NextTravis]_vars

InitOps ==
    ClientDefault /\ HooksIdle /\ PagesIdle /\ TravisIdle /\ OpsInit /\ IssueIdle /\ MatchIdle

SpecOps == InitOps /\ [][NextOps]_vars

InitIssue ==
    ClientDefault /\ HooksIdle /\ PagesIdle /\ TravisIdle /\ OpsIdle /\ IssueInit /\ MatchIdle

SpecIssue == InitIssue /\ [][NextIssue]_vars

InitMatch ==
    ClientDefault /\ HooksIdle /\ PagesIdle /\ TravisIdle /\ OpsIdle /\ IssueIdle /\ MatchInit

SpecMatch == InitMatch /\ [][NextMatch]_vars

\* One operation of the client or one event, from any state of the providers.
Init ==
    \/ InitHooks
    \/ InitPages
    \/ InitTravis
    \/ InitOps
    \/ InitIssue
    \/ InitMatch

Next ==
    \/ NextHooks
    \/ NextPages
    \/ NextTravis
    \/ NextOps
    \/ NextIssue
    \/ NextMatch

Spec == Init /\ [][Next]_vars

\* The transport answers the remote call of merge, isBehindMaster, ...
OpResponses ==
    \/ \E err \in Errors : CallFails(err)
    \/ CallResponds

\* A paginated fetch and an operation of one remote call, on one client, in
\* flight together: the listing has one-item pages.
InitInFlight ==
    /\ ClientInit
    /\ HooksIdle
    /\ pages \in SeqsUpTo({ << "x" >> }, MaxPages) \ { <<>> }
    /\ pgPc = "idle"
    /\ PagesClientIdle
    /\ TravisIdle
    /\ OpsInit
    /\ IssueIdle
    /\ MatchIdle

\* confirmWebhookExists on a repository that has no hook yet.
InitNoHooks ==
    /\ ClientInit
    /\ repoHooks = {}
    /\ nextHookId = 1
    /\ cwPc = "idle"
    /\ HooksClientIdle
    /\ PagesIdle
    /\ TravisIdle
    /\ OpsIdle
    /\ IssueIdle
    /\ MatchIdle

InitSeveral ==
    \/ InitInFlight
    \/ InitNoHooks
    \/ InitTravis
    \/ InitIssue

\* Operations on one client; the transport answers every request of merge,
\* isBehindMaster, ..., and may leave any other request without answer.
NextSeveral ==
    \/ NextHooks
    \/ NextPages
    \/ NextTravis
    \/ NextOps
    \/ NextIssue

SpecSeveral == InitSeveral /\ [][NextSeveral]_vars /\ WF_vars(OpResponses)

\* ------------------------------------------- claims: webhook reconciliation
\* The hooks of hs registered for url.
HooksFor(hs, url) == { hook \in hs : hook.hasConfig /\ hook.url = url }

\* The invocation's callback was invoked without an error.
CwSucceeded == cwPc = "done" /\ cwLog[Len(cwLog)].res = "ok"

\* hs holds exactly one hook for url, and its event set is that of events.
ExactlyOneHook(hs, url, events) ==
    \E hook \in hs : /\ HooksFor(hs, url) = {hook}
                      /\ Range(hook.events) = Range(events)

\* C1: whenever confirmWebhookExists(url, events) completes without an error,
\* exactly one webhook for url exists and its event set is the requested one.
C1_ExactlyOneAfterSuccess ==
    CwSucceeded => ExactlyOneHook(hooksAtCallback, cwUrl, cwEvents)

\* C2: a second successful confirmWebhookExists with the arguments of the
\* first successful one issues no deleteHook and no createHook, and exactly
\* one webhook for url with the requested event set exists.
C2_Idempotent ==
    (/\ CwSucceeded
     /\ prev.res = "ok"
     /\ prev.url = cwUrl
     /\ prev.events = cwEvents)
    => /\ Calls(cwLog, "deleteHook") = <<>>
       /\ Calls(cwLog, "createHook") = <<>>
       /\ ExactlyOneHook(hooksAtCallback, cwUrl, cwEvents)

\* A successful invocation that follows a successful one for the same url
\* with a different event set.
C3_Case ==
    /\ CwSucceeded
    /\ prev.res = "ok"
    /\ prev.url = cwUrl
    /\ Range(prev.events) # Range(cwEvents)

\* C3: after a successful call with (url, E), a successful call with (url, E'),
\* E' a different set, leaves exactly one webhook for url, with event set E':
\* it is the one hook this call created, so every older hook for url is gone.
C3_ReplacedNotDuplicated ==
    C3_Case =>
       /\ ExactlyOneHook(hooksAtCallback, cwUrl, cwEvents)
       /\ Len(Calls(cwLog, "createHook")) = 1
       /\ \A hook \in HooksFor(hooksAtCallback, cwUrl) :
             hook.id = Responses(cwLog, "createHook")[1].arg

C3_Witness ==
    /\ C3_Case
    /\ \E i \in 1..Len(cwLog) :
          cwLog[i] \in { Entry("resp", "deleteHook", id, "ok") : id \in 1..nextHookId }

\* C4: a failed deletion is followed at once by the callback with that error
\* and the invocation issues no createHook; a failed listing is followed at
\* once by the callback with that error and the invocation issues no
\* deleteHook and no createHook.
C4_FailureAbortsBeforeCreate ==
    \A i \in 1..Len(cwLog) :
       (/\ cwLog[i].t = "resp"
        /\ cwLog[i].op \in {"getHooks", "deleteHook"}
        /\ cwLog[i].res \in Errors)
       => /\ i + 1 = Len(cwLog)
          /\ cwLog[i + 1] = Entry("callback", "confirmWebhookExists", 0, cwLog[i].res)
          /\ Calls(cwLog, "createHook") = <<>>
          /\ cwLog[i].op = "getHooks" => Calls(cwLog, "deleteHook") = <<>>

\* One deletion succeeded and another one failed.
C4_Witness ==
    /\ cwPc = "done"
    /\ \E i, j \in 1..Len(cwLog) :
          /\ cwLog[i].t = "resp" /\ cwLog[i].op = "deleteHook" /\ cwLog[i].res = "ok"
          /\ cwLog[j].t = "resp" /\ cwLog[j].op = "deleteHook" /\ cwLog[j].res \in Errors

\* ------------------------------------------------- claims: paginated fetches
\* The concatenation of the pages ps, in order.
RECURSIVE Flatten(_)
Flatten(ps) ==
    IF ps = <<>> THEN <<>>
    ELSE Flatten(SubSeq(ps, 1, Len(ps) - 1)) \o ps[Len(ps)]

\* The sum of the lengths of the pages ps.
RECURSIVE SumLen(_)
SumLen(ps) ==
    IF ps = <<>> THEN 0
    ELSE SumLen(SubSeq(ps, 1, Len(ps) - 1)) + Len(ps[Len(ps)])

\* C5: the sequence delivered to the completion callback of getContributors /
\* getCommits is the in-order concatenation of exactly the pages the provider
\* returned before the fetch ended (the first pages of its listing), and its
\* length is the sum of their lengths.
C5_DeliveredIsConcatenation ==
    (pgPc = "done" /\ ~delivered.null)
    => /\ delivered.v = Flatten(received)
       /\ Len(delivered.v) = SumLen(received)
       /\ received = SubSeq(pages, 1, Len(received))

\* Two different non-empty pages were returned before the fetch ended.
C5_Witness ==
    /\ pgPc = "done"
    /\ ~delivered.null
    /\ Len(received) >= 2
    /\ received[1] # <<>>
    /\ received[2] # <<>>
    /\ received[1] # received[2]

\* C6: an error of a continuation-page fetch is followed at once by the
\* callback with no error and the data gathered so far; an error of the
\* first-page fetch is followed at once by the callback with that error and no
\* data, and no continuation page is requested.
C6_PageErrors ==
    \A i \in 1..Len(pgLog) :
       /\ (pgLog[i].t = "resp" /\ pgLog[i].op = "getNextPage" /\ pgLog[i].res # "ok")
          => /\ i + 1 = Len(pgLog)
             /\ pgLog[i + 1] = Entry("callback", pgOp, 0, "ok")
             /\ delivered = Some(Flatten(received))
       /\ (pgLog[i].t = "resp" /\ pgLog[i].op = pgOp /\ pgLog[i].res # "ok")
          => /\ i + 1 = Len(pgLog)
             /\ pgLog[i + 1] = Entry("callback", pgOp, 0, pgLog[i].res)
             /\ delivered = Null
             /\ Calls(pgLog, "getNextPage") = <<>>

\* A transport error ended the fetch while the provider held further pages.
C6_Witness ==
    /\ pgPc = "done"
    /\ Len(received) >= 1
    /\ Len(received) < Len(pages)
    /\ pgLog[Len(pgLog) - 1].op = "getNextPage"
    /\ pgLog[Len(pgLog) - 1].res \in Errors
    /\ delivered.v # <<>>

\* ------------------------------------- claims: triggerTravisForPullRequest
\* The travis.builds callback ran with a response object.
C7_Case == Len(tvLog) >= 2 /\ tvLog[2].arg.defined

\* C7: when no build of the listing has pull_request_number n, the callback
\* gets the not-found error and no restart is issued; otherwise exactly one
\* restart is issued, for a build whose pull_request_number is n, and the
\* callback gets that restart's result or that restart's error.
C7_RestartsOneMatchingBuild ==
    C7_Case =>
       LET bs == IF tvLog[2].arg.hasBuilds THEN tvLog[2].arg.builds ELSE <<>>
           matching == { bs[i].id : i \in { j \in 1..Len(bs) :
                                              bs[j].pull_request_number = tvN } }
       IN IF matching = {}
          THEN /\ tvPc = "done"
               /\ Len(tvLog) = 3
               /\ tvLog[3].t = "callback"
               /\ tvLog[3].res = NotFound
               /\ Calls(tvLog, "restart") = <<>>
          ELSE /\ Len(Calls(tvLog, "restart")) = 1
               /\ Calls(tvLog, "restart")[1].arg \in matching
               /\ tvPc \in {"restart", "done"}
               /\ tvPc = "done" =>
                     /\ Len(tvLog) = 5
                     /\ tvLog[4].t = "resp" /\ tvLog[4].op = "restart"
                     /\ tvLog[5].t = "callback"
                     /\ tvLog[5].res = tvLog[4].res
                     /\ tvLog[4].res = "ok" => tvLog[5].arg = tvLog[4].arg

\* A restart result was delivered although the first build of the listing
\* belongs to another pull request.
C7_Witness ==
    /\ tvPc = "done"
    /\ tvLog[Len(tvLog)].res = "ok"
    /\ builds[1].pull_request_number # tvN

\* ------------------------------------------- claims: issueCommentHandler
\* C8: an issue-comment event without a pull request completes by one
\* callback without error; no Repository Client call and no validation is
\* issued.
C8_PlainIssueIsNoOp ==
    (icPc \notin {"off", "idle"} /\ ~payload.issue.pull_request)
    => /\ icPc = "done"
       /\ Len(icLog) = 1
       /\ icLog[1].t = "callback"
       /\ icLog[1].res = "ok"

C8_Witness ==
    /\ icPc = "done"
    /\ payload.issue.number \in PullRequests
    /\ ~payload.issue.pull_request

\* C9: performCompleteValidation is invoked at most once, only right after
\* the answer to getLastCommitOnPullRequest(payload.issue.number) brought the
\* commit, and with that commit's sha, its committer's login and the re-check
\* flag true; once the commit (with its committer) is there, it has been
\* invoked.
C9_ValidatesResolvedCommit ==
    /\ Len(Calls(icLog, "performCompleteValidation")) <= 1
    /\ \A i \in 1..Len(icLog) :
          (icLog[i].t = "call" /\ icLog[i].op = "performCompleteValidation")
          => /\ i = 3
             /\ icLog[1].t = "call"
             /\ icLog[1].op = "getLastCommitOnPullRequest"
             /\ icLog[1].arg = payload.issue.number
             /\ icLog[2].t = "resp"
             /\ icLog[2].op = "getLastCommitOnPullRequest"
             /\ icLog[2].res = "ok"
             /\ icLog[3].arg.sha = icLog[2].arg.sha
             /\ icLog[3].arg.login = icLog[2].arg.committer.login
             /\ icLog[3].arg.recheck = TRUE
    /\ (/\ Len(icLog) >= 2
        /\ icLog[2].t = "resp"
        /\ icLog[2].res = "ok"
        /\ ~icLog[2].arg.committer.null)
       => Len(Calls(icLog, "performCompleteValidation")) = 1

C9_Witness ==
    /\ icPc = "validating"
    /\ payload.issue.pull_request
    /\ Len(Calls(icLog, "performCompleteValidation")) = 1

\* ---------------------------------------- claims: errors of the transport
\* In the log lg, an error of a transport call other than a continuation-page
\* fetch is followed at once by the callback with that error, and by nothing
\* else.
ErrorsPropagate(lg) ==
    \A i \in 1..Len(lg) :
       (lg[i].t = "resp" /\ lg[i].res # "ok" /\ lg[i].op # "getNextPage")
       => /\ i + 1 = Len(lg)
          /\ lg[i + 1].t = "callback"
          /\ lg[i + 1].res = lg[i].res

\* C10: in every Repository Client operation, the error of a failed transport
\* call (a continuation-page fetch apart) is handed to the operation's
\* callback and no further remote call follows.
C10_ErrorsPropagate ==
    /\ ErrorsPropagate(cwLog)
    /\ ErrorsPropagate(pgLog)
    /\ ErrorsPropagate(opLog)
    /\ ErrorsPropagate(tvLog)

\* ------------------------------------------ claims: getAllOpenPullRequests
\* C11: the result of getAllOpenPullRequests holds the items of every page of
\* the provider's listing of open pull requests.
C11_AllOpenPullRequests ==
    (pgOp = "getAllOpenPullRequests" /\ pgPc = "done" /\ ~delivered.null)
    => delivered.v = Flatten(pages)

\* ------------------------------------------ claims: getAllStatusesFor
OpDone(name) == opPc = "done" /\ opName = name

OpResponse == opLog[2]

OpCallback == opLog[3]

\* C12: the callback of getAllStatusesFor always gets a sequence: the statuses
\* of the provider when there are some, the empty sequence and no error when
\* the provider reports none (an empty or an absent list), and the error
\* together with the empty sequence when the call fails.
C12_StatusesAlwaysASequence ==
    OpDone("getAllStatusesFor") =>
        /\ Len(opLog) = 3
        /\ OpCallback.t = "callback"
        /\ OpCallback.res = OpResponse.res
        /\ Len(OpCallback.arg) = 1
        /\ ~OpCallback.arg[1].null
        /\ OpCallback.arg[1].v \in SeqsUpTo(Statuses, MaxStatuses)
        /\ IF OpResponse.res = "ok"
           THEN OpCallback.arg[1].v = provider.statuses
           ELSE OpCallback.arg[1].v = <<>>

C12_Witness ==
    /\ OpDone("getAllStatusesFor")
    /\ OpResponse.arg.null
    /\ OpCallback.arg[1] = Some(<<>>)

\* ------------------------------------------ claims: isBehindMaster
\* C13: on success the callback of isBehindMaster gets the distance behind_by
\* of the comparison and the flag distance > 0 (false and 0 for behind_by = 0);
\* on failure it gets the error and nothing else.
C13_BehindMaster ==
    OpDone("isBehindMaster") =>
        /\ Len(opLog) = 3
        /\ OpCallback.t = "callback"
        /\ OpCallback.res = OpResponse.res
        /\ IF OpResponse.res = "ok"
           THEN /\ Len(OpCallback.arg) = 2
                /\ OpCallback.arg[2] = provider.behind_by
                /\ OpCallback.arg[1] = (provider.behind_by > 0)
                /\ provider.behind_by = 0 => OpCallback.arg[1] = FALSE
           ELSE OpCallback.arg = <<>>

C13_Witness ==
    /\ OpDone("isBehindMaster")
    /\ OpResponse.res = "ok"
    /\ provider.behind_by = 0
    /\ Len(OpCallback.arg) = 2
    /\ OpCallback.arg[1] = FALSE

\* ------------------------------------------ claims: removals before creation
IsEntry(e, t, op) == e.t = t /\ e.op = op

\* C14: within one invocation of confirmWebhookExists, createHook is issued
\* only when no deleteHook of that invocation is outstanding: every deleteHook
\* issued before it has been answered, without error.  (The deletions
\* themselves are issued together and are answered in any order.)
C14_CreateAfterDeletions ==
    \A k \in 1..Len(cwLog) :
        IsEntry(cwLog[k], "call", "createHook") =>
            /\ \A req \in deleteReqs : req.call # callNo
            /\ \A i \in 1..Len(cwLog) :
                  IsEntry(cwLog[i], "call", "deleteHook") =>
                      /\ i < k
                      /\ \E j \in (i+1)..(k-1) :
                            /\ IsEntry(cwLog[j], "resp", "deleteHook")
                            /\ cwLog[j].arg = cwLog[i].arg
                            /\ cwLog[j].res = "ok"

\* Two deletions outstanding together, answered in the reverse order, and
\* then the creation.
C14_Witness ==
    /\ cwPc = "createHook"
    /\ Len(cwLog) = 7
    /\ IsEntry(cwLog[3], "call", "deleteHook")
    /\ IsEntry(cwLog[4], "call", "deleteHook")
    /\ IsEntry(cwLog[5], "resp", "deleteHook")
    /\ IsEntry(cwLog[6], "resp", "deleteHook")
    /\ cwLog[5].arg = cwLog[4].arg
    /\ cwLog[6].arg = cwLog[3].arg
    /\ cwLog[3].arg # cwLog[4].arg
    /\ IsEntry(cwLog[7], "call", "createHook")

\* ------------------------------------------ claims: issue comment, ending
\* The handler has run and no step of it remains: it is in a terminal state,
\* or an exception has ended it.
IssueHandlerStopped == icPc \in {"done", "thrown"}

\* C15: an issue-comment event whose remote calls have all been answered has
\* reached a terminal state, ignored, merged, rejected or errored, and its
\* callback has been invoked exactly once; this holds as well when the last
\* commit of the pull request cannot be resolved.
C15_EndsWithOneCallback ==
    /\ Len(SelectSeq(icLog, LAMBDA e : e.t = "callback")) <= 1
    /\ IssueHandlerStopped =>
          /\ icPc = "done"
          /\ Len(SelectSeq(icLog, LAMBDA e : e.t = "callback")) = 1
          /\ icLog[Len(icLog)].t = "callback"

\* ------------------------------------------ claims: one page at a time
Prefix(lg, n) == SubSeq(lg, 1, n)

Outstanding(lg) ==
    Len(SelectSeq(lg, LAMBDA e : e.t = "call")) - Len(SelectSeq(lg, LAMBDA e : e.t = "resp"))

\* C16: a paginated fetch has at most one page request outstanding at any
\* time, and each request after the first is issued right after the response
\* to the one before it, for the next link of the page that response brought.
C16_OnePageAtATime ==
    pgOp \in PagedOps =>
        /\ \A n \in 0..Len(pgLog) : Outstanding(Prefix(pgLog, n)) \in {0, 1}
        /\ \A i \in 1..Len(pgLog) :
              pgLog[i].t = "call" =>
                 IF i = 1
                 THEN pgLog[i].op = pgOp
                 ELSE /\ pgLog[i].op = "getNextPage"
                      /\ pgLog[i-1].t = "resp"
                      /\ pgLog[i-1].res = "ok"
                      /\ pgLog[i].arg = PageAt(pgLog[i-1].arg).next

\* The third page is being requested, after the second was received.
C16_Witness ==
    /\ pgOp \in PagedOps
    /\ pgPc = "next"
    /\ Len(received) = 2
    /\ Len(pages) = 3
    /\ pgLog[Len(pgLog)] = Entry("call", "getNextPage", 3, "-")

\* ------------------------------------------ claims: the fetch terminates
\* The completion callback has been invoked at most once, and when it has,
\* it is the last thing the fetch did: no page is requested with or after it.
C17_CallbackOnceAndLast ==
    pgOp \in PagedOps =>
        /\ Len(Callbacks(pgLog)) <= 1
        /\ Len(Callbacks(pgLog)) = 1 =>
              /\ pgLog[Len(pgLog)].t = "callback"
              /\ pgPc = "done"
              /\ Outstanding(pgLog) = 0
        /\ pgPc = "done" => Len(Callbacks(pgLog)) = 1

\* C17: when every page request is answered, a paginated fetch over the
\* provider's finitely many pages ends: its completion callback is invoked,
\* exactly once, no page is requested after it, and it is not invoked while
\* a page is still being requested.
C17_Terminates ==
    /\ []C17_CallbackOnceAndLast
    /\ (pgOp \in PagedOps /\ pgPc = "first") ~> (pgPc = "done")

\* The whole listing was fetched and the missing next link ended the fetch.
C17_Witness ==
    /\ pgOp \in PagedOps
    /\ pgPc = "done"
    /\ Len(pages) = MaxPages
    /\ received = pages
    /\ Len(Calls(pgLog, "getNextPage")) = MaxPages
    /\ pgLog[Len(pgLog) - 1].res = NoNextPage
    /\ pgLog[Len(pgLog)].t = "callback"

\* ------------------------------------------ claims: independent call chains
\* C18: an operation whose own remote call is answered reaches its callback
\* whatever becomes of the other operation in flight on the client, a request
\* of which may stay without answer for ever; and no step of any operation
\* changes a field of the client.
C18_Independent ==
    /\ [][client' = client]_vars
    /\ [](client \in { RepositoryClient(config) : config \in Configs })
    /\ (opPc = "called") ~> (opPc = "done" /\ Len(Callbacks(opLog)) = 1)

\* The operation has called back while a page request of the fetch is
\* still without answer.
C18_Witness ==
    /\ pgPc = "next"
    /\ Len(received) = 1
    /\ opPc = "done"
    /\ Len(Callbacks(opLog)) = 1
    /\ client.hooks = <<>>

\* ------------------------------------------ claims: arraysMatch
\* C19: arraysMatch(left, right) is true exactly when the set of the elements
\* of left equals the set of the elements of right, whatever the order and
\* the repetitions in either list.
C19_SetEquality ==
    amPc = "done" => (amResult = (Range(amLeft) = Range(amRight)))

\* ------------------------------------------ claims: what reconciliation touches
\* The deleteHook requests of the current invocation that are not answered yet.
OwnDeleteReqs == { req \in deleteReqs : req.call = callNo }

\* C20: confirmWebhookExists(url, events) asks for the deletion of a hook
\* only if the hook has a config, its url is url and its events are not the
\* requested events (as sets); it issues at most one createHook per
\* invocation, and its callback is invoked at most once, and exactly once
\* when the invocation has ended.
C20_TouchesOnlyStaleHooks ==
    /\ \A req \in OwnDeleteReqs : \A hook \in repoHooks :
          hook.id = req.id =>
              /\ hook.hasConfig
              /\ hook.url = cwUrl
              /\ Range(hook.events) # Range(cwEvents)
    /\ Len(Calls(cwLog, "createHook")) <= 1
    /\ Len(Callbacks(cwLog)) <= 1
    /\ cwPc = "done" => Len(Callbacks(cwLog)) = 1

====
